---- MODULE Spec2Model ----
(***************************************************************************)
(* Relaxation controllers of pylada.vasp.relax: the staged loop            *)
(* iter_relax, its interleaved variant iter_training, the bracketing and   *)
(* bisecting search iter_epitaxial, and the convergence policy built by    *)
(* _get_is_converged.  One step of a generator (request a VASP run,        *)
(* extract its Result, update the locals, check convergence) is one        *)
(* action; the executor's Result is the action's input.  Spec runs one     *)
(* call of a controller, PolicySpec the policy alone, SharedSpec two       *)
(* calls on one functional object.                                         *)
(***************************************************************************)
EXTENDS Integers, Sequences, FiniteSets, TLC

\* ---------------------------------------------------------------- bounds
\* largest positive maxcalls tried (maxcalls = 0 stands for "maxcalls <= 0")
MaxCalls == 2
\* cap on nb_steps for runs with maxcalls <= 0, which the code leaves unbounded
MaxSteps == 3
\* largest structure size len(structure)
MaxAtoms == 2
\* vasp.ediff, the executor's own energy tolerance, in the model's energy unit
Ediff == 2
\* largest minrelsteps tried
MaxMinRelSteps == 2
\* cap on the outward steps of iter_epitaxial after the first, which the
\* code leaves unbounded
MaxWalk == 2
\* cap on the depth of the bisection of iter_epitaxial, which the code
\* leaves unbounded
MaxBisect == 2

VARIABLES
    func,           \* which generator runs: "relax" | "training" |
                    \*   "epitaxial" | "policy"
    maxcalls,       \* argument maxcalls
    nofail,         \* argument nofail
    first_trial,    \* len(first_trial) != 0
    keepsteps,      \* argument keepsteps
    relaxation,     \* the phases named in the relaxation string
    convergence,    \* argument convergence, as the caller gave it
    minrelsteps,    \* argument minrelsteps
    natoms,         \* len(structure)
    keyword,        \* 'relaxation' in kwargs: the caller gave the relaxation
                    \*   as a keyword argument, not through vasp.relaxation
    epiconv,        \* argument epiconv of iter_epitaxial
    structure,      \* the caller's structure object
    pc,             \* position of the generator
    criterion,      \* what the closure is_converged captured
    nb_steps,       \* local nb_steps
    output,         \* local output (None or the last extracted Result)
    params,         \* local params: "kwargs" or "kwargs+first_trial"
    isConv,         \* local isConv of iter_training
    error,          \* exception that left the generator, "none" if none
    terminal,       \* number of terminal Results yielded
    store,          \* sub-directories of outdir that exist
    run,            \* 0: a single invocation; 1, 2: first and second
                    \*   invocation on the same outdir
    first,          \* what the first of two invocations did
    trace,          \* history: the Results extracted so far, in request
                    \*   order (kept when run > 0)
    requested,      \* history: steps requested so far, per phase
    last_params,    \* history: params of the last request
    restart,        \* history: restart checkpoint of the last request
    first_failure,  \* history: number of requests made when the first
                    \*          Result with success == False came back (0: none)
    ever_converged, \* history: some relaxation Result satisfied the policy
    checked,        \* history: phases whose Results were passed to is_converged
    previous,       \* history: the Result of the last step (None: no step yet)
    trial,          \* history: the structure handed over with the last request
    xstart,         \* iter_epitaxial: local xstart
    xend,           \* iter_epitaxial: local xend
    estart,         \* iter_epitaxial: local estart
    eend,           \* iter_epitaxial: local eend
    stress_direction, \* iter_epitaxial: local stress_direction (0: not set)
    allcalcs,       \* iter_epitaxial: allcalcs[-1] (None: allcalcs is empty)
    heap,           \* SharedSpec: the functional objects, by identity
    ref,            \* SharedSpec: the object each call's local vasp names
    cpc,            \* SharedSpec: position of each call
    seen,           \* SharedSpec: the functional each call last ran a step with
    call,           \* SharedSpec: the arguments of each call
    answer          \* PolicySpec: last value returned by is_converged

vars == <<func, maxcalls, nofail, first_trial, keepsteps, relaxation,
          convergence, minrelsteps, natoms, pc, criterion, nb_steps, output,
          params, isConv, error, terminal, store, requested, last_params,
          restart, first_failure, ever_converged, checked, answer,
          epiconv, structure, previous, trial, xstart, xend, estart, eend,
          stress_direction, allcalcs, heap, ref, cpc, seen, call, keyword,
          run, first, trace>>

arguments == <<func, maxcalls, nofail, first_trial, keepsteps, relaxation,
               convergence, minrelsteps, natoms, epiconv, keyword>>

config == <<arguments, run, first>>

\* the calls that share one functional
sharing == <<heap, ref, cpc, seen, call>>

\* the locals of iter_epitaxial
epitaxial == <<xstart, xend, estart, eend, stress_direction, allcalcs>>

\* ------------------------------------------------------------ arithmetic
Abs(x) == IF x < 0 THEN -x ELSE x

SetMax(S) == CHOOSE m \in S : \A x \in S : x <= m

\* ------------------------------------------------------------ Results
\* output = None
None == [none |-> TRUE, success |-> FALSE, total_energies |-> <<>>,
         forces |-> <<>>, directory |-> [phase |-> "none", index |-> -1]]

\* an extraction object of the directory <phase>/<index>
Extract(phase, index, success, energies, forces) ==
    [none |-> FALSE, success |-> success, total_energies |-> energies,
     forces |-> forces, directory |-> [phase |-> phase, index |-> index]]

\* forces of a structure of n atoms: atom 1 feels f, the others nothing
ForcesOf(n, f) == [i \in 1..n |-> IF i = 1 THEN f ELSE <<0, 0, 0>>]

\* numpy: max(abs(extractor.forces)) is the largest absolute component of
\* the whole (natoms x 3) array
max_abs(forces) ==
    SetMax({Abs(forces[i][k]) : i \in DOMAIN forces, k \in 1..3} \cup {0})

\* largest squared norm of a per-atom force vector
max_norm2(forces) ==
    SetMax({forces[i][1] * forces[i][1] + forces[i][2] * forces[i][2]
              + forces[i][3] * forces[i][3] : i \in DOMAIN forces} \cup {0})

\* ------------------------------------------------------------ criteria
ConvNone == [kind |-> "None", value |-> 0]
ConvCallable == [kind |-> "callable", value |-> 0]
ConvNumber(v) == [kind |-> "number", value |-> v]

\* the callable a caller passes as convergence: here, "the run made at
\* least two ionic steps and the last one lowered the energy"
convergence_callable(extractor) ==
    LET e == extractor.total_energies
    IN  Len(e) >= 2 /\ e[Len(e)] < e[Len(e) - 1]

PyBool(b) == IF b THEN "True" ELSE "False"

\* "i = int(directory.split('/')[-1]) + 1; minrelsteps > 0 and
\* minrelsteps > i": the Result of the i-th call is sent away unexamined
\* (mutant: the comparison is turned round)
too_early_mutant(minrel, directory) ==
    minrel > 0 /\ minrel < directory.index + 1
too_early(minrel, directory) ==
    minrel > 0 /\ minrel > directory.index + 1

\* is_converged of the callable branch
is_converged_callable(crit, extractor) ==
    IF extractor.none THEN "True"
    ELSE IF ~extractor.success THEN "ExternalRunFailed"
    ELSE IF too_early(crit.minrelsteps, extractor.directory) THEN "False"
    ELSE PyBool(convergence_callable(extractor))

\* the comparison of the last two total energies with the criterion
\* (mutant: the comparison is not strict)
energy_test_mutant(e, c) == Abs(e[Len(e) - 1] - e[Len(e)]) <= c
energy_test(e, c) == Abs(e[Len(e) - 1] - e[Len(e)]) < c

\* a trace too short to compare counts as converged
short_trace(e) == Len(e) < 2

\* is_converged of the positive (energy) branch
is_converged_energy(crit, extractor) ==
    IF extractor.none THEN "True"
    ELSE IF ~extractor.success THEN "ExternalRunFailed"
    ELSE IF too_early(crit.minrelsteps, extractor.directory) THEN "False"
    ELSE IF short_trace(extractor.total_energies) THEN "True"
    ELSE PyBool(energy_test(extractor.total_energies, crit.value))

\* the comparison of the forces with the criterion
force_test(forces, c) == max_abs(forces) < Abs(c)

\* is_converged of the non-positive (force) branch
is_converged_forces(crit, extractor) ==
    IF extractor.none THEN "True"
    ELSE IF ~extractor.success THEN "ExternalRunFailed"
    ELSE IF too_early(crit.minrelsteps, extractor.directory) THEN "False"
    ELSE PyBool(force_test(extractor.forces, crit.value))

\* the closure _get_is_converged returned, applied to an extraction object:
\* "True", "False", or the exception it raises
is_converged(crit, extractor) ==
    IF crit.kind = "callable" THEN is_converged_callable(crit, extractor)
    ELSE IF crit.value > 0 THEN is_converged_energy(crit, extractor)
    ELSE is_converged_forces(crit, extractor)

\* convergence after the defaulting and scaling at the top of
\* _get_is_converged (mutant: the scaling by the atom count is left out)
scaled_mutant(conv, n) ==
    IF conv.kind = "None" THEN ConvNumber(10 * Ediff) ELSE conv
scaled(conv, n) ==
    IF conv.kind = "None" THEN ConvNumber(10 * Ediff)
    ELSE IF conv.kind = "callable" THEN conv
    ELSE IF conv.value > 0 THEN ConvNumber(conv.value * n)
    ELSE conv

\* _get_is_converged: the exception it raises ("none" if it returns) and the
\* criterion its closure captures.  A callable reaches "convergence > 0",
\* which Python 3 refuses for a function and a number (TypeError).
get_is_converged(conv, minrel, n) ==
    LET c == scaled(conv, n)
    IN  IF c.kind = "callable"
        THEN [error |-> "TypeError", criterion |-> c @@ [minrelsteps |-> minrel]]
        ELSE IF c.value > 0 /\ c.value < Ediff
        THEN [error |-> "ValueError", criterion |-> c @@ [minrelsteps |-> minrel]]
        ELSE [error |-> "none", criterion |-> c @@ [minrelsteps |-> minrel]]

Unbuilt == [kind |-> "unbuilt", value |-> 0, minrelsteps |-> -1]


\* ------------------------------------------------------------ exceptions
ExecutionFailure == "ExternalRunFailed: VASP calculation did not succeed."
CellShapeFailure == "ExternalRunFailed: Could not converge cell-shape"
IonsFailure == "ExternalRunFailed: Could not converge ions"
ConvergenceFailures == {CellShapeFailure, IonsFailure}
ConfigurationError == "ValueError"

\* ------------------------------------------------------------ executor
Phases == {"relax_cellshape", "relax_ions", "relax_gwcalc", "outdir"}

\* total_energies traces an executor run may leave behind
EnergyTraces == {<<4>>, <<4, 3>>, <<20 * Ediff, 0>>}
\* force on the first atom an executor run may leave behind
ForceVectors == {<<1, 0, 0>>, <<2, 2, 2>>}

\* the Results the executor may produce for the step <phase>/<index>; the
\* fields the built criterion never reads are held at one value
StepResults(phase, index) ==
    IF criterion.value > 0
    THEN {Extract(phase, index, TRUE, e, ForcesOf(natoms, <<0, 0, 0>>)) :
             e \in EnergyTraces}
         \cup {Extract(phase, index, FALSE, <<4>>, ForcesOf(natoms, <<0, 0, 0>>))}
    ELSE {Extract(phase, index, TRUE, <<4>>, ForcesOf(natoms, f)) :
             f \in ForceVectors}
         \cup {Extract(phase, index, FALSE, <<4>>, ForcesOf(natoms, <<2, 2, 2>>))}

\* the Results the executor may produce for the static run in outdir
StaticResults ==
    {Extract("outdir", -1, s, <<4>>, ForcesOf(natoms, <<0, 0, 0>>)) :
        s \in BOOLEAN}

Total == requested["relax_cellshape"] + requested["relax_ions"]
           + requested["relax_gwcalc"] + requested["outdir"]

\* a second invocation on the same outdir extracts from a step directory
\* the Result the first invocation extracted from it
Stored(r) ==
    \A i \in DOMAIN first.trace :
        first.trace[i].directory = r.directory => first.trace[i] = r

\* history of one realized step: the request, made with "restart=output",
\* and the Result it came back with
\* (mutant: the static run is started without a checkpoint)
Note_mutant(phase, r, p) ==
    /\ Stored(r)
    /\ trace' = IF run = 0 THEN trace ELSE Append(trace, r)
    /\ requested' = [requested EXCEPT ![phase] = @ + 1]
    /\ last_params' = p
    /\ restart' = IF phase = "outdir" THEN None ELSE output
    /\ previous' = r
    /\ store' = store \cup {phase}
    /\ first_failure' = IF first_failure = 0 /\ ~r.success
                        THEN Total + 1 ELSE first_failure
    /\ ever_converged' = (ever_converged
                          \/ (phase # "outdir"
                              /\ is_converged(criterion, r) = "True"))
Note(phase, r, p) ==
    /\ Stored(r)
    /\ trace' = IF run = 0 THEN trace ELSE Append(trace, r)
    /\ requested' = [requested EXCEPT ![phase] = @ + 1]
    /\ last_params' = p
    /\ restart' = output
    /\ previous' = r
    /\ store' = store \cup {phase}
    /\ first_failure' = IF first_failure = 0 /\ ~r.success
                        THEN Total + 1 ELSE first_failure
    /\ ever_converged' = (ever_converged
                          \/ (phase # "outdir"
                              /\ is_converged(criterion, r) = "True"))

\* history of a call is_converged(output)
Checked(r) == IF r.none THEN checked ELSE checked \cup {r.directory.phase}


\* ------------------------------------------------------------ iter_relax
\* "maxcalls <= 0 or nb_steps < maxcalls" and the phase is asked for
cellshape_loop(mc, n, rel) == (mc <= 0 \/ n < mc) /\ "cellshape" \in rel

\* (mutant: the ceiling of the ionic loop is inclusive)
ionic_loop_mutant(mc, n, rel) == (mc <= 0 \/ n <= mc + 1) /\ "ionic" \in rel

ionic_loop(mc, n, rel) == (mc <= 0 \/ n < mc + 1) /\ "ionic" \in rel

relgw_test(mc, n, rel) == (mc <= 0 \/ n < mc + 2) /\ "relgw" \in rel

\* "nofail == False and is_converged(output) == False", with the exception
\* is_converged may raise: "pass", "raise" or ExecutionFailure
\* (mutant: nofail is read the wrong way round)
gate_mutant(nf, crit, extractor) ==
    IF ~nf THEN "pass"
    ELSE LET isconv == is_converged(crit, extractor)
         IN  IF isconv = "ExternalRunFailed" THEN ExecutionFailure
             ELSE IF isconv = "False" THEN "raise"
             ELSE "pass"

gate(nf, crit, extractor) ==
    IF nf THEN "pass"
    ELSE LET isconv == is_converged(crit, extractor)
         IN  IF isconv = "ExternalRunFailed" THEN ExecutionFailure
             ELSE IF isconv = "False" THEN "raise"
             ELSE "pass"

\* "if nb_steps == 1 and len(first_trial) != 0", after the increment
\* (mutant: the Result of the first_trial call is checked like the others)
first_trial_skip_mutant(n, ft) == n = 1 /\ ~ft
first_trial_skip(n, ft) == n = 1 /\ ft

requests == <<requested, last_params, restart, first_failure,
              ever_converged, previous, trace>>

history == <<requests, checked, store>>

\* entry of iter_relax up to the first loop: builds the policy, zeroes the
\* counter, merges first_trial into the parameters
RelaxEntry ==
    /\ pc = "start"
    /\ func = "relax"
    /\ LET g == get_is_converged(convergence, minrelsteps, natoms)
       IN  IF g.error # "none"
           THEN /\ pc' = "raised"
                /\ error' = g.error
                /\ UNCHANGED <<criterion, params>>
           ELSE /\ pc' = "cellshape"
                /\ criterion' = g.criterion
                /\ params' = IF first_trial THEN "kwargs+first_trial"
                             ELSE "kwargs"
                /\ UNCHANGED error
    /\ nb_steps' = 0
    /\ output' = None
    /\ UNCHANGED <<config, sharing, structure, trial, epitaxial, isConv, terminal, history, answer>>

\* "relaxation=..., **params" hands the relaxation over twice, which Python
\* refuses (TypeError), when params still holds the caller's keyword: params
\* is copied from kwargs before "kwargs.pop('relaxation', ...)", and is set
\* to the popped kwargs only by "params = kwargs" after a first_trial call
twice(kw, ft, p) == kw /\ (~ft \/ p = "kwargs+first_trial")

\* what follows the extraction of a step's Result in the cell-shape loop
CellShapeBody(r) ==
    /\ output' = r
    /\ nb_steps' = nb_steps + 1
    /\ Note("relax_cellshape", r, params)
    /\ IF first_trial_skip(nb_steps + 1, first_trial)
       THEN /\ params' = "kwargs"
            /\ pc' = "cellshape"
            /\ UNCHANGED <<error, checked>>
       ELSE /\ checked' = Checked(r)
            /\ UNCHANGED params
            /\ LET isconv == is_converged(criterion, r)
               IN  IF isconv = "ExternalRunFailed"
                   THEN pc' = "raised" /\ error' = ExecutionFailure
                   ELSE /\ pc' = IF isconv = "True" THEN "cellshape_gate"
                                 ELSE "cellshape"
                        /\ UNCHANGED error

\* one pass of "while (maxcalls <= 0 or nb_steps < maxcalls) and cellshape"
CellShape ==
    /\ pc = "cellshape"
    /\ IF ~cellshape_loop(maxcalls, nb_steps, relaxation)
       THEN /\ pc' = "cellshape_gate"
            /\ UNCHANGED <<nb_steps, output, params, error, history>>
       ELSE IF twice(keyword, first_trial, params)
       THEN /\ pc' = "raised"
            /\ error' = "TypeError"
            /\ UNCHANGED <<nb_steps, output, params, history>>
       ELSE /\ maxcalls <= 0 => nb_steps < MaxSteps
            /\ \E r \in StepResults("relax_cellshape", nb_steps) :
                  CellShapeBody(r)
    /\ UNCHANGED <<config, sharing, structure, trial, epitaxial, criterion, isConv, terminal, answer>>

\* "if nofail == False and is_converged(output) == False: raise"
CellShapeGate ==
    /\ pc = "cellshape_gate"
    /\ checked' = IF nofail THEN checked ELSE Checked(output)
    /\ LET g == gate(nofail, criterion, output)
       IN  IF g = "pass" THEN pc' = "ionic" /\ UNCHANGED error
           ELSE /\ pc' = "raised"
                /\ error' = IF g = "raise" THEN CellShapeFailure ELSE g
    /\ UNCHANGED <<config, sharing, structure, trial, epitaxial, criterion, nb_steps, output, params, isConv,
                   terminal, requests, store, answer>>

\* what follows the extraction of a step's Result in the ionic loop
\* (mutant: the ionic loop does not count its step)
IonicBody_mutant(r) ==
    /\ output' = r
    /\ nb_steps' = nb_steps
    /\ Note("relax_ions", r, params)
    /\ IF first_trial_skip(nb_steps + 1, first_trial)
       THEN /\ params' = "kwargs"
            /\ pc' = "ionic"
            /\ UNCHANGED <<error, checked>>
       ELSE /\ checked' = Checked(r)
            /\ UNCHANGED params
            /\ LET isconv == is_converged(criterion, r)
               IN  IF isconv = "ExternalRunFailed"
                   THEN pc' = "raised" /\ error' = ExecutionFailure
                   ELSE /\ pc' = IF isconv = "True" THEN "relgw" ELSE "ionic"
                        /\ UNCHANGED error

IonicBody(r) ==
    /\ output' = r
    /\ nb_steps' = nb_steps + 1
    /\ Note("relax_ions", r, params)
    /\ IF first_trial_skip(nb_steps + 1, first_trial)
       THEN /\ params' = "kwargs"
            /\ pc' = "ionic"
            /\ UNCHANGED <<error, checked>>
       ELSE /\ checked' = Checked(r)
            /\ UNCHANGED params
            /\ LET isconv == is_converged(criterion, r)
               IN  IF isconv = "ExternalRunFailed"
                   THEN pc' = "raised" /\ error' = ExecutionFailure
                   ELSE /\ pc' = IF isconv = "True" THEN "relgw" ELSE "ionic"
                        /\ UNCHANGED error

\* one pass of "while (maxcalls <= 0 or nb_steps < maxcalls + 1) and ionic"
Ionic ==
    /\ pc = "ionic"
    /\ IF ~ionic_loop(maxcalls, nb_steps, relaxation)
       THEN /\ pc' = "relgw"
            /\ UNCHANGED <<nb_steps, output, params, error, history>>
       ELSE IF twice(keyword, first_trial, params)
       THEN /\ pc' = "raised"
            /\ error' = "TypeError"
            /\ UNCHANGED <<nb_steps, output, params, history>>
       ELSE /\ maxcalls <= 0 => nb_steps < MaxSteps
            /\ \E r \in StepResults("relax_ions", nb_steps) : IonicBody(r)
    /\ UNCHANGED <<config, sharing, structure, trial, epitaxial, criterion, isConv, terminal, answer>>

\* "if (maxcalls <= 0 or nb_steps < maxcalls + 2) and relgw": at most one
\* gwcalc step, whose failure is built but not raised
RelGw ==
    /\ pc = "relgw"
    /\ IF ~relgw_test(maxcalls, nb_steps, relaxation)
       THEN /\ pc' = "ions_gate"
            /\ UNCHANGED <<nb_steps, output, requests, store, error>>
       ELSE IF twice(keyword, first_trial, params)
       THEN /\ pc' = "raised"
            /\ error' = "TypeError"
            /\ UNCHANGED <<nb_steps, output, requests, store>>
       ELSE /\ pc' = "ions_gate"
            /\ \E r \in StepResults("relax_gwcalc", nb_steps) :
                  /\ output' = r
                  /\ nb_steps' = nb_steps + 1
                  /\ Note("relax_gwcalc", r, params)
            /\ UNCHANGED error
    /\ UNCHANGED <<config, sharing, structure, trial, epitaxial, criterion,
                   params, isConv, terminal, checked, answer>>

\* "if nofail == False and is_converged(output) == False: raise", placed
\* after the gwcalc block
IonsGate ==
    /\ pc = "ions_gate"
    /\ checked' = IF nofail THEN checked ELSE Checked(output)
    /\ LET g == gate(nofail, criterion, output)
       IN  IF g = "pass" THEN pc' = "static" /\ UNCHANGED error
           ELSE /\ pc' = "raised"
                /\ error' = IF g = "raise" THEN IonsFailure ELSE g
    /\ UNCHANGED <<config, sharing, structure, trial, epitaxial, criterion, nb_steps, output, params, isConv,
                   terminal, requests, store, answer>>

\* the final static run in outdir; its failure is built but not raised
\* (mutant: the static Result is handed to the policy like the others)
Static_mutant ==
    /\ pc = "static"
    /\ \E r \in StaticResults :
          /\ output' = r
          /\ Note("outdir", r, "kwargs")
          /\ checked' = Checked(r)
    /\ pc' = "finish"
    /\ UNCHANGED <<config, sharing, structure, trial, epitaxial, criterion, nb_steps, params, isConv, error,
                   terminal, answer>>

Static ==
    /\ pc = "static"
    /\ \E r \in StaticResults :
          /\ output' = r
          /\ Note("outdir", r, "kwargs")
    /\ pc' = "finish"
    /\ UNCHANGED <<config, sharing, structure, trial, epitaxial, criterion, nb_steps, params, isConv, error,
                   terminal, checked, answer>>

\* rmtree(join(outdir, "cellshape")); rmtree(join(outdir, "ions")): each
\* raises when its directory does not exist
rmtree_steps(dirs) ==
    IF "cellshape" \notin dirs
    THEN [error |-> "FileNotFoundError", store |-> dirs]
    ELSE IF "ions" \notin dirs
    THEN [error |-> "FileNotFoundError", store |-> dirs \ {"cellshape"}]
    ELSE [error |-> "none", store |-> dirs \ {"cellshape", "ions"}]

\* directories named cellshape and ions that outdir may hold besides those
\* in store: any combination (that is the caller's business), but none
\* when an earlier invocation on this outdir went through the clean-up,
\* what it left being in store
strays(before) ==
    IF before.cleaned THEN {{}} ELSE SUBSET {"cellshape", "ions"}

\* the end of iter_relax: the clean-up and the terminal Result
Finish ==
    /\ pc = "finish"
    /\ IF output.success /\ ~keepsteps
       THEN \E stray \in strays(first) :
               LET rm == rmtree_steps(store \cup stray)
               IN  /\ store' = rm.store
                   /\ IF rm.error # "none"
                      THEN pc' = "raised" /\ error' = rm.error
                                          /\ UNCHANGED terminal
                      ELSE pc' = "done" /\ terminal' = terminal + 1
                                        /\ UNCHANGED error
       ELSE /\ pc' = "done"
            /\ terminal' = terminal + 1
            /\ UNCHANGED <<error, store>>
    /\ UNCHANGED <<config, sharing, structure, trial, epitaxial, criterion, nb_steps, output, params, isConv,
                   requests, checked, answer>>


\* ------------------------------------------------------------ iter_training
\* entry of iter_training: builds the policy (minrelsteps is not handed to
\* _get_is_converged, which then takes its default of -1)
TrainingEntry ==
    /\ pc = "start"
    /\ func = "training"
    /\ LET g == get_is_converged(convergence, -1, natoms)
       IN  IF g.error # "none"
           THEN pc' = "raised" /\ error' = g.error /\ UNCHANGED criterion
           ELSE pc' = "train_cellshape" /\ criterion' = g.criterion
                                        /\ UNCHANGED error
    /\ nb_steps' = 0
    /\ output' = None
    /\ UNCHANGED <<config, sharing, structure, trial, epitaxial, params, isConv, terminal, history, answer>>

\* "while (maxcalls <= 0 or nb_steps < maxcalls)"
training_loop(mc, n) == mc <= 0 \/ n < mc

\* first half of a cycle: the loop test, the cell-shape step and its check
TrainingCellShape ==
    /\ pc = "train_cellshape"
    /\ IF training_loop(maxcalls, nb_steps)
       THEN /\ maxcalls <= 0 => nb_steps < MaxSteps
            /\ \E r \in StepResults("relax_cellshape", nb_steps) :
                  /\ output' = r
                  /\ nb_steps' = nb_steps + 1
                  /\ Note("relax_cellshape", r,
                          IF first_trial THEN "kwargs+first_trial"
                          ELSE "kwargs")
                  /\ checked' = Checked(r)
                  /\ params' = "kwargs"
                  /\ LET isconv == is_converged(criterion, r)
                     IN  IF isconv = "ExternalRunFailed"
                         THEN /\ pc' = "raised"
                              /\ error' = ExecutionFailure
                              /\ UNCHANGED isConv
                         ELSE /\ pc' = "train_ionic"
                              /\ isConv' = (isconv = "True")
                              /\ UNCHANGED error
       ELSE /\ pc' = "train_gate"
            /\ UNCHANGED <<nb_steps, output, params, isConv, error, history>>
    /\ UNCHANGED <<config, sharing, structure, trial, epitaxial, criterion, terminal, answer>>

\* second half of a cycle: the ionic step, then "if isConv: break"
\* (mutant: the break is decided on the Result of the ionic step)
TrainingIonic_mutant ==
    /\ pc = "train_ionic"
    /\ \E r \in StepResults("relax_ions", nb_steps) :
          /\ output' = r
          /\ nb_steps' = nb_steps + 1
          /\ Note("relax_ions", r, params)
          /\ pc' = IF is_converged(criterion, r) = "True"
                   THEN "train_gate" ELSE "train_cellshape"
    /\ UNCHANGED <<config, sharing, structure, trial, epitaxial, criterion, params, isConv, error, terminal,
                   checked, answer>>

TrainingIonic ==
    /\ pc = "train_ionic"
    /\ \E r \in StepResults("relax_ions", nb_steps) :
          /\ output' = r
          /\ nb_steps' = nb_steps + 1
          /\ Note("relax_ions", r, params)
    /\ pc' = IF isConv THEN "train_gate" ELSE "train_cellshape"
    /\ UNCHANGED <<config, sharing, structure, trial, epitaxial, criterion, params, isConv, error, terminal,
                   checked, answer>>

\* the two "if nofail == False and is_converged(output) == False: raise"
\* after the loop; the second can only repeat the answer of the first
TrainingGate ==
    /\ pc = "train_gate"
    /\ checked' = IF nofail THEN checked ELSE Checked(output)
    /\ LET g == gate(nofail, criterion, output)
       IN  IF g = "pass" THEN pc' = "train_static" /\ UNCHANGED error
           ELSE /\ pc' = "raised"
                /\ error' = IF g = "raise" THEN CellShapeFailure ELSE g
    /\ UNCHANGED <<config, sharing, structure, trial, epitaxial, criterion, nb_steps, output, params, isConv,
                   terminal, requests, store, answer>>

\* the final static run of iter_training; its failure is built, not raised
TrainingStatic ==
    /\ pc = "train_static"
    /\ \E r \in StaticResults :
          /\ output' = r
          /\ Note("outdir", r, "kwargs")
    /\ pc' = "train_finish"
    /\ UNCHANGED <<config, sharing, structure, trial, epitaxial, criterion, nb_steps, params, isConv, error,
                   terminal, checked, answer>>

\* "yield iter_training.Extract(outdir)"
TrainingFinish ==
    /\ pc = "train_finish"
    /\ pc' = "done"
    /\ terminal' = terminal + 1
    /\ UNCHANGED <<config, sharing, structure, trial, epitaxial, criterion, nb_steps, output, params, isConv,
                   error, history, answer>>

\* ------------------------------------------------------------ iter_epitaxial
\* argument initstep, in the model's unit of strain: small enough for
\* MaxBisect exact halvings of a bracket one step wide
initstep == 2 ^ MaxBisect

\* the strain 1.0 in that unit (initstep is the default 0.05)
One == 20 * initstep

\* direction after "array(direction) / norm(direction)", seen along itself
direction == 1

\* the caller's structure of n atoms along the direction: cell length and
\* atomic positions, in units of 1 / One
Structure(n) == [cell |-> One, pos |-> [i \in 1..n |-> i * One]]

NoStructure == [cell |-> 0, pos |-> <<>>]

\* change_structure(x): the caller's structure after the call and the new
\* structure; "structure.copy()" leaves the caller's object alone
\* (mutant: the copy is left out, newstruct is the caller's object)
change_structure_mutant(struct, x) ==
    LET strain == direction * direction * x
        newstruct ==
          [cell |-> struct.cell + (strain * struct.cell) \div One,
           pos |-> [i \in DOMAIN struct.pos |->
                      struct.pos[i] + (strain * struct.pos[i]) \div One]]
    IN  [caller |-> newstruct, newstruct |-> newstruct]
change_structure(struct, x) ==
    LET strain == direction * direction * x
        newstruct ==
          [cell |-> struct.cell + (strain * struct.cell) \div One,
           pos |-> [i \in DOMAIN struct.pos |->
                      struct.pos[i] + (strain * struct.pos[i]) \div One]]
    IN  [caller |-> struct, newstruct |-> newstruct]

\* component(stress): the stress along the direction
component(stress) == direction * stress * direction

\* an extraction object of iter_epitaxial: of relax_ions/<x>, or of outdir
ExtractEpitaxial(phase, x, success, energy, stress, struct) ==
    [none |-> FALSE, success |-> success, total_energy |-> energy,
     stress |-> stress, structure |-> struct,
     directory |-> [phase |-> phase, index |-> x]]

\* total energies and stresses an executor run may leave behind
EpitaxialEnergies == {0, 1, 3}
Stresses == {-1, 0, 1}

\* the Results the executor may produce for the trial strain x; the ionic
\* relaxation keeps the cell it is given
TrialResults(x, struct) ==
    {ExtractEpitaxial("relax_ions", x, s, e, st, struct) :
        s \in BOOLEAN, e \in EpitaxialEnergies, st \in Stresses}

\* the Results the executor may produce for the static run in outdir
EpitaxialStaticResults(struct) ==
    {ExtractEpitaxial("outdir", -1, s, e, 0, struct) :
        s \in BOOLEAN, e \in EpitaxialEnergies}

\* history of one realized step of iter_epitaxial, requested with
\* "restart=None if len(allcalcs) == 0 else allcalcs[-1]" or "restart=efinal"
EpitaxialNote(phase, r, p, rst, struct) ==
    /\ requested' = [requested EXCEPT ![phase] = @ + 1]
    /\ last_params' = p
    /\ restart' = rst
    /\ trial' = struct
    /\ previous' = r
    /\ store' = store \cup {phase}
    /\ first_failure' = IF first_failure = 0 /\ ~r.success
                        THEN Total + 1 ELSE first_failure
    /\ UNCHANGED <<ever_converged, trace>>

\* what the relaxation loops and the policy own; iter_epitaxial has none
relaxing == <<criterion, nb_steps, output, params, isConv, checked,
              answer>>

\* entry of iter_epitaxial up to the first run: the functional is cloned
\* and set up, allcalcs is empty
EpitaxialEntry ==
    /\ pc = "start"
    /\ func = "epitaxial"
    /\ pc' = "epi_start"
    /\ allcalcs' = None
    /\ UNCHANGED <<config, sharing, structure, trial, relaxing, error, terminal,
                   requests, store, xstart, xend, estart, eend,
                   stress_direction>>

\* the run at xstart = 0.0
EpitaxialStart ==
    /\ pc = "epi_start"
    /\ xstart' = 0
    /\ LET cs == change_structure(structure, 0)
       IN  /\ structure' = cs.caller
           /\ \E r \in TrialResults(0, cs.newstruct) :
                 /\ EpitaxialNote("relax_ions", r, "relaxation=2",
                                  allcalcs, cs.newstruct)
                 /\ estart' = r
                 /\ allcalcs' = r
    /\ pc' = "epi_end"
    /\ UNCHANGED <<config, sharing, relaxing, error, terminal, xend, eend,
                   stress_direction>>

\* "1.0 if component(allcalcs[-1].stress) > 0e0 else -1.0"
\* (mutant: a stress of zero is counted as positive)
search_direction_mutant(stress) == IF component(stress) < 0 THEN -1 ELSE 1
search_direction(stress) == IF component(stress) > 0 THEN 1 ELSE -1

\* the choice of the search direction and the run at the first xend
EpitaxialEnd ==
    /\ pc = "epi_end"
    /\ LET sd == search_direction(allcalcs.stress)
           x == IF sd > 0 THEN initstep ELSE -initstep
           cs == change_structure(structure, x)
       IN  /\ stress_direction' = sd
           /\ xend' = x
           /\ structure' = cs.caller
           /\ \E r \in TrialResults(x, cs.newstruct) :
                 /\ EpitaxialNote("relax_ions", r, "relaxation=2",
                                  allcalcs, cs.newstruct)
                 /\ eend' = r
                 /\ allcalcs' = r
    /\ pc' = "epi_walk"
    /\ UNCHANGED <<config, sharing, relaxing, error, terminal, xstart, estart>>

\* "while stress_direction * component(allcalcs[-1].stress) > 0e0"
walk_test(sd, calc) == sd * component(calc.stress) > 0

\* one pass of the loop that pushes xend outwards
EpitaxialWalk ==
    /\ pc = "epi_walk"
    /\ IF walk_test(stress_direction, allcalcs)
       THEN /\ Abs(xend) < (1 + MaxWalk) * initstep
            /\ LET x == xend + (IF stress_direction > 0 THEN initstep
                                ELSE -initstep)
                   cs == change_structure(structure, x)
               IN  /\ xstart' = xend
                   /\ estart' = eend
                   /\ xend' = x
                   /\ structure' = cs.caller
                   /\ \E r \in TrialResults(x, cs.newstruct) :
                         /\ EpitaxialNote("relax_ions", r, "relaxation=2",
                                          allcalcs, cs.newstruct)
                         /\ eend' = r
                         /\ allcalcs' = r
            /\ UNCHANGED pc
       ELSE /\ pc' = "epi_bisect"
            /\ UNCHANGED <<structure, trial, requests, store, xstart, xend,
                           estart, eend, allcalcs>>
    /\ UNCHANGED <<config, sharing, relaxing, error, terminal, stress_direction>>

\* "while abs(estart.total_energy - eend.total_energy)
\*          > epiconv * float(len(structure))"
\* (mutant: the loop goes on when the difference equals the threshold)
bisect_test_mutant(es, ee, conv, n) ==
    Abs(es.total_energy - ee.total_energy) >= conv * n
bisect_test(es, ee, conv, n) ==
    Abs(es.total_energy - ee.total_energy) > conv * n

\* "if stress_direction * component(emid.stress) > 0:" the midpoint becomes
\* xstart, else it becomes xend
\* (mutant: a midpoint of zero stress becomes xstart)
replaces_start_mutant(sd, emid) == sd * component(emid.stress) >= 0
replaces_start(sd, emid) == sd * component(emid.stress) > 0

\* one pass of the bisection loop
EpitaxialBisect ==
    /\ pc = "epi_bisect"
    /\ IF bisect_test(estart, eend, epiconv, natoms)
       THEN /\ Abs(xend - xstart) > 1
            /\ LET xmid == (xend + xstart) \div 2
                   cs == change_structure(structure, xmid)
               IN  /\ structure' = cs.caller
                   /\ \E emid \in TrialResults(xmid, cs.newstruct) :
                         /\ EpitaxialNote("relax_ions", emid, "relaxation=2",
                                          allcalcs, cs.newstruct)
                         /\ allcalcs' = emid
                         /\ IF replaces_start(stress_direction, emid)
                            THEN /\ xstart' = xmid
                                 /\ estart' = emid
                                 /\ UNCHANGED <<xend, eend>>
                            ELSE /\ xend' = xmid
                                 /\ eend' = emid
                                 /\ UNCHANGED <<xstart, estart>>
            /\ UNCHANGED pc
       ELSE /\ pc' = "epi_static"
            /\ UNCHANGED <<structure, trial, requests, store, xstart, xend,
                           estart, eend, allcalcs>>
    /\ UNCHANGED <<config, sharing, relaxing, error, terminal, stress_direction>>

\* "efinal = eend if estart.total_energy > eend.total_energy else estart"
\* (mutant: the comparison is turned round)
efinal_mutant(es, ee) == IF es.total_energy < ee.total_energy THEN ee ELSE es
efinal(es, ee) == IF es.total_energy > ee.total_energy THEN ee ELSE es

\* the final static run in outdir, on the structure of efinal
EpitaxialStatic ==
    /\ pc = "epi_static"
    /\ LET ef == efinal(estart, eend)
       IN  \E r \in EpitaxialStaticResults(ef.structure) :
              EpitaxialNote("outdir", r, "relaxation=static", ef,
                            ef.structure)
    /\ pc' = "epi_finish"
    /\ UNCHANGED <<config, sharing, structure, relaxing, error, terminal,
                   epitaxial>>

\* the initial structure written into the OUTCAR of outdir, then
\* "yield iter_epitaxial.Extract(outdir)"
EpitaxialFinish ==
    /\ pc = "epi_finish"
    /\ pc' = "done"
    /\ terminal' = terminal + 1
    /\ UNCHANGED <<config, sharing, structure, trial, relaxing, error, requests,
                   store, epitaxial>>

\* ------------------------------------------------------------ shared functional
\* vasp.encut = 1.4, in tenths
EncutDefault == 14

\* the calls that run side by side on the same functional
Calls == {1, 2}

\* identities of the functional objects: the caller's, and the deep copies
\* call i makes (at most two)
Base == 0
Copy(i, k) == 2 * (i - 1) + k
Objects == {Base} \cup {Copy(i, k) : i \in Calls, k \in 1..2}

String(v) == [tuple |-> FALSE, value |-> v]
Tuple(v) == [tuple |-> TRUE, value |-> v]

\* the caller's functional; ediff is held in hundredths of the energy unit
BaseVasp == [relaxation |-> String("volume"), encut |-> 10,
             ediff |-> 100 * Ediff]

Unallocated == [relaxation |-> String("unallocated"), encut |-> 0, ediff |-> 0]

\* a keyword argument that is not given
NotGiven == -1
Absent == String("not given")

\* the keyword arguments of a call that reach the functional
CallArguments ==
    {[func |-> f, relaxation |-> r, encut |-> NotGiven, ediff |-> NotGiven,
      epiconv |-> 1] :
        f \in {"relax", "training"},
        r \in {Absent, String("cellshape ionic"),
               Tuple("cellshape ionic")}}
    \cup
    {[func |-> "epitaxial", relaxation |-> Absent, encut |-> c, ediff |-> d,
      epiconv |-> e] :
        c \in {NotGiven, 12}, d \in {NotGiven, 100}, e \in {1, Ediff + 1}}

NoCall == [func |-> "none", relaxation |-> Absent, encut |-> NotGiven,
           ediff |-> NotGiven, epiconv |-> 1]

\* "vasp = deepcopy(vasp)": the object the local name is bound to afterwards
\* (mutant: no copy is made, the name stays on the object it had)
deepcopy_mutant(obj, fresh) == obj
deepcopy(obj, fresh) == fresh

\* the heap after "vasp = deepcopy(vasp)" bound vasp to the object new
copied(h, obj, new) == [h EXCEPT ![new] = h[obj]]

\* "relaxation = kwargs.pop('relaxation', vasp.relaxation)"
popped_relaxation(c, v) ==
    IF c.relaxation = Absent THEN v.relaxation ELSE c.relaxation

\* the set-up of the functional of iter_epitaxial, line by line
epitaxial_setup(v, c) ==
    LET v1 == [v EXCEPT !.relaxation = String("ionic"),
                        !.encut = EncutDefault]
        v2 == IF c.encut # NotGiven THEN [v1 EXCEPT !.encut = c.encut]
              ELSE v1
        v3 == IF c.ediff # NotGiven THEN [v2 EXCEPT !.ediff = c.ediff]
              ELSE v2
    IN  IF v3.ediff < 100 * c.epiconv
        THEN [v3 EXCEPT !.ediff = c.epiconv]
        ELSE v3

others == <<config, structure, trial, epitaxial, relaxing, pc, error,
            terminal, requests, store>>

\* "vasp = deepcopy(vasp)" at the entry of a controller
SharedEntry(i) ==
    /\ cpc[i] = "start"
    /\ LET new == deepcopy(ref[i], Copy(i, 1))
       IN  /\ heap' = copied(heap, ref[i], new)
           /\ ref' = [ref EXCEPT ![i] = new]
    /\ cpc' = [cpc EXCEPT ![i] = "setup"]
    /\ UNCHANGED <<seen, call, others>>

\* what a controller does to its functional before its first step
SharedSetup(i) ==
    /\ cpc[i] = "setup"
    /\ IF call[i].func = "epitaxial"
       THEN /\ heap' = [heap EXCEPT
                           ![ref[i]] = epitaxial_setup(heap[ref[i]], call[i])]
            /\ UNCHANGED ref
       ELSE LET relax == popped_relaxation(call[i], heap[ref[i]])
            IN  IF relax.tuple
                THEN LET new == deepcopy(ref[i], Copy(i, 2))
                     IN  /\ heap' = [copied(heap, ref[i], new)
                                       EXCEPT ![new].relaxation = relax]
                         /\ ref' = [ref EXCEPT ![i] = new]
                ELSE UNCHANGED <<heap, ref>>
    /\ cpc' = [cpc EXCEPT ![i] = "run"]
    /\ UNCHANGED <<seen, call, others>>

\* a step: vasp.iter(...) runs with the functional the call holds
SharedStep(i) ==
    /\ cpc[i] \in {"run", "run again"}
    /\ seen' = [seen EXCEPT ![i] = heap[ref[i]]]
    /\ cpc' = [cpc EXCEPT ![i] = IF cpc[i] = "run" THEN "run again"
                                 ELSE "over"]
    /\ UNCHANGED <<heap, ref, call, others>>

\* ------------------------------------------------------------ the runs
\* numeric convergence arguments tried by the controllers
ConvergenceValues == {1, 3, -2}

Convergences(values) ==
    {ConvNone, ConvCallable} \cup {ConvNumber(v) : v \in values}

\* the locals and the history before the generator runs
Fresh ==
    /\ pc = "start"
    /\ trace = <<>>
    /\ criterion = Unbuilt
    /\ nb_steps = 0
    /\ output = None
    /\ params = "kwargs"
    /\ isConv = FALSE
    /\ error = "none"
    /\ terminal = 0
    /\ store = {}
    /\ requested = [p \in Phases |-> 0]
    /\ last_params = "none"
    /\ restart = None
    /\ first_failure = 0
    /\ ever_converged = FALSE
    /\ checked = {}
    /\ answer = "none"
    /\ previous = None
    /\ trial = NoStructure
    /\ xstart = 0
    /\ xend = 0
    /\ estart = None
    /\ eend = None
    /\ stress_direction = 0
    /\ allcalcs = None

\* no call shares its functional with another
\* no invocation came before this one
NoFirst == [trace |-> <<>>, pc |-> "none", error |-> "none", terminal |-> 0,
            cleaned |-> FALSE]

\* one invocation, not followed by another on the same outdir
Single ==
    /\ run = 0
    /\ first = NoFirst

Alone ==
    /\ heap = [o \in Objects |-> IF o = Base THEN BaseVasp ELSE Unallocated]
    /\ ref = [i \in Calls |-> Base]
    /\ cpc = [i \in Calls |-> "start"]
    /\ seen = [i \in Calls |-> Unallocated]
    /\ call = [i \in Calls |-> NoCall]

\* values of epiconv tried
EpitaxialConvergences == {1, 2}

\* one call of iter_epitaxial with any arguments within the bounds
EpitaxialInit ==
    /\ func = "epitaxial"
    /\ maxcalls = 0
    /\ nofail = FALSE
    /\ first_trial = FALSE
    /\ keepsteps = TRUE
    /\ keyword = FALSE
    /\ relaxation = {"ionic"}
    /\ convergence = ConvNone
    /\ minrelsteps = -1
    /\ natoms \in 1..MaxAtoms
    /\ epiconv \in EpitaxialConvergences
    /\ structure = Structure(natoms)
    /\ Fresh
    /\ Alone
    /\ Single

\* one call of iter_relax or iter_training with any arguments within the
\* bounds (iter_training has no keepsteps and only hands relaxation on)
RelaxInit ==
    /\ func \in {"relax", "training"}
    /\ maxcalls \in 0..MaxCalls
    /\ nofail \in BOOLEAN
    /\ first_trial \in BOOLEAN
    /\ keepsteps \in IF func = "relax" THEN BOOLEAN ELSE {TRUE}
    /\ keyword \in BOOLEAN
    /\ relaxation \in IF func = "relax"
                      THEN SUBSET {"cellshape", "ionic", "relgw"}
                      ELSE {{"cellshape", "ionic"}}
    /\ convergence \in Convergences(ConvergenceValues)
    /\ minrelsteps \in {-1, MaxMinRelSteps}
    /\ natoms \in 1..MaxAtoms
    /\ epiconv = 1
    /\ structure = Structure(natoms)
    /\ Fresh
    /\ Alone
    /\ Single

Init == RelaxInit \/ EpitaxialInit

\* ------------------------------------------------- two invocations, one outdir
\* iter_relax is invoked again with the same arguments and the same outdir,
\* after the first invocation ended or was interrupted between two steps:
\* the locals start afresh, the directories stay
Reinvoke ==
    /\ run = 1
    /\ pc # "start"
    /\ run' = 2
    /\ first' = [trace |-> trace, pc |-> pc, error |-> error,
                 terminal |-> terminal,
                 cleaned |-> \/ error = "FileNotFoundError"
                             \/ pc = "done" /\ output.success /\ ~keepsteps]
    /\ pc' = "start"
    /\ trace' = <<>>
    /\ criterion' = Unbuilt
    /\ nb_steps' = 0
    /\ output' = None
    /\ params' = "kwargs"
    /\ isConv' = FALSE
    /\ error' = "none"
    /\ terminal' = 0
    /\ requested' = [p \in Phases |-> 0]
    /\ last_params' = "none"
    /\ restart' = None
    /\ first_failure' = 0
    /\ ever_converged' = FALSE
    /\ checked' = {}
    /\ answer' = "none"
    /\ previous' = None
    /\ UNCHANGED <<arguments, sharing, structure, trial, epitaxial, store>>

\* a call of iter_relax with any arguments within the bounds, to be followed
\* by a second one
ReplayInit ==
    /\ func = "relax"
    /\ maxcalls \in 0..MaxCalls
    /\ nofail \in BOOLEAN
    /\ first_trial \in BOOLEAN
    /\ keepsteps \in BOOLEAN
    /\ keyword \in BOOLEAN
    /\ relaxation \in SUBSET {"cellshape", "ionic", "relgw"}
    /\ convergence \in Convergences(ConvergenceValues)
    /\ minrelsteps \in {-1, MaxMinRelSteps}
    /\ natoms \in 1..MaxAtoms
    /\ epiconv = 1
    /\ structure = Structure(natoms)
    /\ Fresh
    /\ Alone
    /\ run = 1
    /\ first = NoFirst

ReplayNext ==
    \/ RelaxEntry
    \/ CellShape
    \/ CellShapeGate
    \/ Ionic
    \/ RelGw
    \/ IonsGate
    \/ Static
    \/ Finish
    \/ Reinvoke

ReplaySpec == ReplayInit /\ [][ReplayNext]_vars

Next ==
    \/ RelaxEntry
    \/ CellShape
    \/ CellShapeGate
    \/ Ionic
    \/ RelGw
    \/ IonsGate
    \/ Static
    \/ Finish
    \/ TrainingEntry
    \/ TrainingCellShape
    \/ TrainingIonic
    \/ TrainingGate
    \/ TrainingStatic
    \/ TrainingFinish
    \/ EpitaxialEntry
    \/ EpitaxialStart
    \/ EpitaxialEnd
    \/ EpitaxialWalk
    \/ EpitaxialBisect
    \/ EpitaxialStatic
    \/ EpitaxialFinish

Spec == Init /\ [][Next]_vars

\* ------------------------------------------------------------ the policy alone
\* numeric convergence arguments, energies and forces tried on the policy
PolicyValues == {1, 2, 3, 0, -2, -3}
PolicyEnergies == {0, 2, 5}
PolicyTraces ==
    {<<>>} \cup {<<a>> : a \in PolicyEnergies}
           \cup {<<a, b>> : a \in PolicyEnergies, b \in PolicyEnergies}
           \cup {<<a, 0, b>> : a \in PolicyEnergies, b \in PolicyEnergies}
PolicyForceVectors == {<<0, 0, 0>>, <<2, 2, 2>>, <<-3, 0, 0>>, <<1, -1, 0>>}

\* Results the policy is tried on, of steps 0 .. MaxMinRelSteps
PolicyResults ==
    IF criterion.value > 0
    THEN {Extract("relax_ions", i, s, e, ForcesOf(natoms, <<0, 0, 0>>)) :
             i \in 0..MaxMinRelSteps, s \in BOOLEAN, e \in PolicyTraces}
    ELSE {Extract("relax_ions", i, s, <<4>>, f) :
             i \in 0..MaxMinRelSteps, s \in BOOLEAN,
             f \in [1..natoms -> PolicyForceVectors]}

PolicyInit ==
    /\ func = "policy"
    /\ maxcalls = 0
    /\ nofail = FALSE
    /\ first_trial = FALSE
    /\ keepsteps = TRUE
    /\ keyword = FALSE
    /\ relaxation = {}
    /\ convergence \in Convergences(PolicyValues)
    /\ minrelsteps \in -1..MaxMinRelSteps
    /\ natoms \in 1..MaxAtoms
    /\ epiconv = 1
    /\ structure = Structure(natoms)
    /\ Fresh
    /\ Alone
    /\ Single

\* _get_is_converged(vasp, structure, convergence, minrelsteps)
PolicyBuild ==
    /\ pc = "start"
    /\ func = "policy"
    /\ LET g == get_is_converged(convergence, minrelsteps, natoms)
       IN  IF g.error # "none"
           THEN pc' = "raised" /\ error' = g.error /\ UNCHANGED criterion
           ELSE pc' = "built" /\ criterion' = g.criterion /\ UNCHANGED error
    /\ UNCHANGED <<config, sharing, structure, trial, epitaxial, nb_steps, output, params, isConv, terminal,
                   history, answer>>

\* is_converged(extractor) on a Result of the executor
PolicyApply ==
    /\ pc = "built"
    /\ \E r \in PolicyResults :
          /\ output' = r
          /\ answer' = is_converged(criterion, r)
    /\ UNCHANGED <<config, sharing, structure, trial, epitaxial, pc, criterion, nb_steps, params, isConv, error,
                   terminal, history>>

PolicyNext == PolicyBuild \/ PolicyApply

PolicySpec == PolicyInit /\ [][PolicyNext]_vars

\* ------------------------------------------------------------ two calls
\* two calls of controllers, with any arguments, on the caller's functional
SharedInit ==
    /\ func = "shared"
    /\ maxcalls = 0
    /\ nofail = FALSE
    /\ first_trial = FALSE
    /\ keepsteps = TRUE
    /\ keyword = FALSE
    /\ relaxation = {}
    /\ convergence = ConvNone
    /\ minrelsteps = -1
    /\ natoms = 1
    /\ epiconv = 1
    /\ structure = Structure(natoms)
    /\ Fresh
    /\ Single
    /\ heap = [o \in Objects |-> IF o = Base THEN BaseVasp ELSE Unallocated]
    /\ ref = [i \in Calls |-> Base]
    /\ cpc = [i \in Calls |-> "start"]
    /\ seen = [i \in Calls |-> Unallocated]
    /\ call \in [Calls -> CallArguments]

SharedNext ==
    \E i \in Calls : SharedEntry(i) \/ SharedSetup(i) \/ SharedStep(i)

SharedSpec == SharedInit /\ [][SharedNext]_vars


\* ============================================================ properties
\* the policy was built: _get_is_converged returned
Built == criterion # Unbuilt

\* C1: in iter_relax, once the Result of a CellShape, Ionic or ExtraPhase
\* step has success == False, no step is requested after the failing one and
\* the run ends with an ExecutionFailure, never with a terminal Result.
C1_FailureIsFatal ==
    (func = "relax" /\ first_failure # 0 /\ first_failure <= nb_steps)
        => /\ Total = first_failure
           /\ pc # "done"
           /\ pc = "raised" => error = ExecutionFailure

\* C2: in iter_relax and iter_training a terminal Result is emitted only
\* after a Static Result with success == True; a Static Result with
\* success == False ends the run with an error and no terminal Result.
C2_NoPartialSuccess ==
    func \in {"relax", "training"}
        => /\ terminal > 0 => output.success
           /\ (requested["outdir"] > 0 /\ ~output.success)
                  => (pc = "raised" /\ terminal = 0)

\* C3: in iter_relax with nofail false, when the CellShape phase has ended
\* with a last Result that does not satisfy the policy, the next thing that
\* happens is the ConvergenceFailure, nothing was or is requested after it,
\* and with no CellShape step at all (output is None) the gate lets the run
\* go on to the Ionic phase without an error.
C3_AtGate ==
    (func = "relax" /\ ~nofail /\ pc = "cellshape_gate")
        => /\ Total = requested["relax_cellshape"]
           /\ output.none <=> requested["relax_cellshape"] = 0
           /\ ~output.none => output.directory.phase = "relax_cellshape"

C3_AfterFailure ==
    error = CellShapeFailure
        => /\ pc = "raised"
           /\ terminal = 0
           /\ func = "relax" => Total = requested["relax_cellshape"]

C3_GateStep ==
    (func = "relax" /\ ~nofail /\ pc = "cellshape_gate")
        => /\ (~output.none /\ is_converged(criterion, output) = "False")
                 => (pc' = "raised" /\ error' = CellShapeFailure
                                    /\ requested' = requested)
           /\ output.none => (pc' = "ionic" /\ error' = "none")

C3_CellShapeConvergenceFailure ==
    /\ [](C3_AtGate /\ C3_AfterFailure)
    /\ [][C3_GateStep /\ pc # "raised"]_vars

\* C3 happens: the CellShape phase used up its calls on successful Results
\* that never converged and the run ended with the ConvergenceFailure.
C3_Witness ==
    /\ func = "relax" /\ ~nofail
    /\ error = CellShapeFailure
    /\ maxcalls > 0 /\ requested["relax_cellshape"] = maxcalls
    /\ output.success

\* C4: in iter_relax with nofail false, neither the ExtraPhase step nor the
\* Static step is requested on top of a successful Ionic Result that does
\* not satisfy the policy (the ConvergenceFailure comes first).
C4_IonsFailureBeforeFurtherStep ==
    (/\ func = "relax" /\ ~nofail
     /\ ~output.none /\ output.directory.phase \in {"relax_gwcalc", "outdir"}
     /\ ~restart.none /\ restart.directory.phase = "relax_ions"
     /\ restart.success)
        => is_converged(criterion, restart) = "True"

\* C5: with nofail true, maxcalls > 0 and an executor whose Results all
\* succeed and never satisfy the policy, an iter_relax run that went through
\* its CellShape and Ionic phases never ends with an exception (so it goes
\* on to the Static step and the terminal Result).
C5_TolerantRunNeverRaises ==
    (/\ func = "relax" /\ nofail /\ maxcalls > 0
     /\ Built
     /\ requested["relax_cellshape"] > 0 /\ requested["relax_ions"] > 0
     /\ first_failure = 0 /\ ~ever_converged)
        => pc # "raised"


\* C6: for maxcalls > 0 one iter_relax run requests at most maxcalls
\* CellShape steps and at most maxcalls + 1 Ionic steps.
C6_CallCeilings ==
    (func = "relax" /\ maxcalls > 0)
        => /\ requested["relax_cellshape"] <= maxcalls
           /\ requested["relax_ions"] <= maxcalls + 1

\* C6 happens: without cell-shape relaxation the Ionic phase starts from
\* counter 0 and uses all of its maxcalls + 1 calls.
C6_Witness ==
    /\ func = "relax" /\ maxcalls > 0
    /\ "cellshape" \notin relaxation
    /\ requested["relax_ions"] = maxcalls + 1

\* C7: an iter_relax run that ended without an error requested exactly one
\* Static step, as its last request, never passed the Static Result to the
\* policy, and yielded exactly one terminal Result, after which nothing
\* happens; no run requests a second Static step or any step after it.
C7_Done ==
    (func = "relax" /\ pc = "done")
        => /\ error = "none"
           /\ requested["outdir"] = 1
           /\ output.directory.phase = "outdir"
           /\ Total = nb_steps + 1
           /\ "outdir" \notin checked
           /\ terminal = 1

C7_Always ==
    func = "relax"
        => /\ requested["outdir"] <= 1
           /\ terminal <= 1
           /\ terminal = 1 => pc = "done"
           /\ "outdir" \notin checked

C7_Step ==
    func = "relax"
        => /\ requested["outdir"] = 1 => requested' = requested
           /\ terminal = 0

C7_OneStaticOneTerminal ==
    /\ [](C7_Done /\ C7_Always)
    /\ [][C7_Step]_vars

\* C7 happens: a run through all four phases ended with its terminal Result.
C7_Witness ==
    /\ func = "relax" /\ pc = "done" /\ terminal = 1
    /\ requested["relax_cellshape"] > 0
    /\ requested["relax_ions"] > 0
    /\ requested["relax_gwcalc"] > 0

\* C8 as stated: a ConfigurationError is signalled if and only if the
\* criterion the caller supplied lies strictly between 0 and ediff.
C8_ErrorIffCallerCriterionBelowEdiff ==
    pc # "start"
        => ((error = ConfigurationError)
              <=> (convergence.kind = "number"
                   /\ 0 < convergence.value /\ convergence.value < Ediff))

\* C8 amended: a ConfigurationError is signalled if and only if the numeric
\* criterion the caller supplied, multiplied by the atom count, lies strictly
\* between 0 and ediff; and it is signalled before any step is requested.
C8_ErrorIffScaledCriterionBelowEdiff ==
    pc # "start"
        => /\ (error = ConfigurationError)
                <=> (convergence.kind = "number"
                     /\ 0 < convergence.value * natoms
                     /\ convergence.value * natoms < Ediff)
           /\ error = ConfigurationError
                => (Total = 0 /\ output.none /\ pc = "raised" /\ ~Built)

\* C8 happens: the construction of a controller raised the error.
C8_Witness ==
    /\ func \in {"relax", "training"}
    /\ error = ConfigurationError
    /\ pc = "raised"

\* the minrelsteps test of is_converged sends this Result away unexamined
Gated(r) ==
    criterion.minrelsteps > 0 /\ criterion.minrelsteps > r.directory.index + 1

LastGap(e) == Abs(e[Len(e)] - e[Len(e) - 1])

\* what C9 says of the answer of the policy to the Result in output
C9_Says ==
    IF Len(output.total_energies) >= 2
    THEN (answer = "True")
            <=> (LastGap(output.total_energies) < criterion.value)
    ELSE answer = "True"

\* C9 as stated: for every positive criterion and every successful Result,
\* the policy answers converged iff the last two energies of the trace differ
\* by strictly less than the criterion, and always for a shorter trace.
C9_EnergyPolicy ==
    (pc = "built" /\ answer # "none" /\ criterion.value > 0
     /\ output.success)
        => C9_Says

\* C9 amended: the same, for the Results the minrelsteps test lets through
\* (minrelsteps <= 0 or step index + 1 >= minrelsteps); the others are
\* answered not converged whatever their trace.
C9_EnergyPolicyPastMinSteps ==
    (pc = "built" /\ answer # "none" /\ criterion.value > 0
     /\ output.success)
        => IF Gated(output) THEN answer = "False" ELSE C9_Says

\* C9 happens: a successful Result past the minrelsteps test whose last two
\* energies differ by exactly the criterion was answered not converged.
C9_Witness ==
    /\ pc = "built" /\ answer = "False"
    /\ criterion.value > 0 /\ minrelsteps > 0
    /\ output.success /\ ~Gated(output)
    /\ Len(output.total_energies) >= 2
    /\ LastGap(output.total_energies) = criterion.value

\* C10: for every non-positive criterion c and every successful Result (past
\* the minrelsteps test) the policy answers converged iff the largest norm
\* of a per-atom force vector is strictly below |c|.
C10_ForcePolicy ==
    (pc = "built" /\ answer # "none" /\ criterion.value <= 0
     /\ output.success /\ ~Gated(output))
        => ((answer = "True")
              <=> (max_norm2(output.forces)
                     < criterion.value * criterion.value))

\* a successful Result of a CellShape, Ionic or ExtraPhase step
RelaxationResult(r) ==
    ~r.none /\ r.success /\ r.directory.phase # "outdir"

\* C11 as stated: in iter_relax with minrelsteps > 0 the policy answers not
\* converged to every successful Result whose step index is below
\* minrelsteps.
C11_BelowMinSteps ==
    (/\ func = "relax" /\ Built /\ minrelsteps > 0
     /\ RelaxationResult(output)
     /\ output.directory.index < minrelsteps)
        => is_converged(criterion, output) = "False"

C11_Answer ==
    (/\ func = "relax" /\ Built /\ minrelsteps > 0
     /\ RelaxationResult(output)
     /\ output.directory.index + 1 < minrelsteps)
        => is_converged(criterion, output) = "False"

C11_Calls ==
    (func = "relax" /\ minrelsteps > 0 /\ ever_converged)
        => nb_steps >= minrelsteps

C11_LoopEnd ==
    (/\ func = "relax" /\ minrelsteps > 0
     /\ requested' # requested
     /\ \/ pc = "cellshape" /\ pc' = "cellshape_gate"
        \/ pc = "ionic" /\ pc' = "relgw")
        => nb_steps' >= minrelsteps

\* C11 amended: in iter_relax with minrelsteps > 0 and an energy or force
\* criterion, the policy answers not converged to every successful Result
\* whose step index + 1 is below minrelsteps (the Result of call number
\* minrelsteps, of index minrelsteps - 1, is examined); no Result satisfies
\* the policy and no phase loop ends by convergence before minrelsteps calls
\* were made.
C11_MinStepsCalls ==
    /\ [](C11_Answer /\ C11_Calls)
    /\ [][C11_LoopEnd]_vars

\* C11 happens: the first Result, which would have satisfied the policy, was
\* sent away by the minrelsteps test and the cell-shape loop ended by
\* convergence on call number minrelsteps.
C11_Witness ==
    /\ func = "relax" /\ minrelsteps = MaxMinRelSteps /\ ~first_trial
    /\ pc = "cellshape_gate"
    /\ nb_steps = minrelsteps
    /\ RelaxationResult(output)
    /\ is_converged(criterion, output) = "True"
    /\ RelaxationResult(restart)
    /\ restart.directory.index + 1 < minrelsteps
    /\ is_converged([criterion EXCEPT !.minrelsteps = -1], restart) = "True"

\* C12: when the criterion is a callable, building the policy succeeds, and
\* the policy answers a successful Result with the callable's own answer
\* once minrelsteps <= 0 or the step index has reached minrelsteps, and not
\* converged before that.
C12_PredicatePolicy ==
    (convergence.kind = "callable" /\ pc # "start")
        => /\ error = "none"
           /\ Built
           /\ (answer # "none" /\ output.success)
                 => answer = IF minrelsteps > 0
                                 /\ output.directory.index < minrelsteps
                              THEN "False"
                              ELSE PyBool(convergence_callable(output))

\* C17: when iter_relax succeeds with keepsteps false, the trees
\* outdir/relax_cellshape and outdir/relax_ions written by the run are gone
\* when the terminal Result is emitted, and it is emitted; with keepsteps
\* true nothing the run wrote is ever deleted.
C17_StepTreesRemoved ==
    /\ (/\ func = "relax" /\ ~keepsteps
        /\ requested["outdir"] = 1 /\ output.success
        /\ pc \in {"done", "raised"})
           => /\ pc = "done"
              /\ terminal = 1
              /\ "relax_cellshape" \notin store
              /\ "relax_ions" \notin store
    /\ (func = "relax" /\ keepsteps)
           => \A p \in Phases : requested[p] > 0 => p \in store

\* C20: in iter_training the first_trial overrides are in the parameters of
\* the very first CellShape call of the run and of no other call: the
\* CellShape calls of the later cycles and all Ionic and Static calls get
\* the plain keyword arguments.
C20_FirstTrialOnlyFirstCall ==
    (func = "training" /\ ~output.none)
        => last_params =
              IF /\ first_trial
                 /\ output.directory.phase = "relax_cellshape"
                 /\ Total = 1
              THEN "kwargs+first_trial"
              ELSE "kwargs"

\* iter_epitaxial has left its outward walk and has not bisected yet
BisectionBegins ==
    /\ func = "epitaxial"
    /\ pc = "epi_bisect"
    /\ Abs(xend - xstart) = initstep

\* the Result has the sign of the search direction along the direction
SameSide(r) == stress_direction * component(r.stress) > 0

\* C13 as stated: when the bisection of iter_epitaxial begins, the projected
\* stress at xstart has the sign of the search direction and the projected
\* stress at xend has not, whatever the stress of the unstrained structure
\* (zero included) and whatever the number of outward steps.  (Stated
\* of the runs whose Results have all succeeded.)
C13_BracketStraddles ==
    (BisectionBegins /\ first_failure = 0)
        => (SameSide(estart) /\ ~SameSide(eend))

\* C13 amended: when the bisection begins, xend = xstart + s * initstep, the
\* projected stress at xend has not the sign of the search direction s, and
\* the projected stress at xstart has it, except when the unstrained
\* structure has a projected stress of exactly zero and no outward step
\* beyond the first was needed: then xstart = 0, s = -1 and the stress at
\* xstart is the zero one.
C13_BracketStraddlesUnlessZero ==
    BisectionBegins
        => /\ xend = xstart + stress_direction * initstep
           /\ estart.directory.index = xstart
           /\ eend.directory.index = xend
           /\ ~SameSide(eend)
           /\ IF xstart = 0 /\ component(estart.stress) = 0
              THEN stress_direction = -1
              ELSE SameSide(estart)

\* C13 happens: the bracket was pushed outwards before the stress changed
\* sides.
C13_Witness ==
    /\ BisectionBegins
    /\ xstart # 0
    /\ SameSide(estart) /\ ~SameSide(eend)

\* the energies of the two ends of the bracket differ by d
EndsGap == Abs(estart.total_energy - eend.total_energy)

\* the bisection loop of iter_epitaxial is over
BisectionOver ==
    func = "epitaxial" /\ pc \in {"epi_static", "epi_finish", "done"}

C14_StrictlyBelow ==
    (BisectionOver /\ first_failure = 0) => EndsGap < epiconv * natoms

C14_StopsStrictlyBelow ==
    (func = "epitaxial" /\ pc = "epi_bisect"
     /\ EndsGap < epiconv * natoms)
        => (requested' = requested /\ pc' = "epi_static")

\* C14 as stated: whenever the bisection loop of iter_epitaxial has stopped,
\* the total energies of the two ends of the bracket differ by strictly less
\* than epiconv * len(structure), and once they do no midpoint is requested.
\* (The first half is stated of the runs whose Results have all succeeded.)
C14_BisectionStopsBelow ==
    /\ []C14_StrictlyBelow
    /\ [][C14_StopsStrictlyBelow]_vars

C14_AtMost == BisectionOver => EndsGap <= epiconv * natoms

C14_StopsAtMost ==
    (func = "epitaxial" /\ pc = "epi_bisect"
     /\ EndsGap <= epiconv * natoms)
        => (requested' = requested /\ pc' = "epi_static")

\* C14 amended: whenever the bisection loop has stopped, the total energies
\* of the two ends of the bracket differ by at most epiconv * len(structure)
\* (equality stops the loop too), and once they do no midpoint is requested.
C14_BisectionStopsAtMost ==
    /\ []C14_AtMost
    /\ [][C14_StopsAtMost]_vars

\* C14 happens: after a midpoint the two ends differ by exactly the
\* threshold and the loop has stopped.
C14_Witness ==
    /\ BisectionOver
    /\ Abs(xend - xstart) < initstep
    /\ EndsGap = epiconv * natoms

\* an end of the bracket with the lower total energy (either one on a tie)
LowerEnds ==
    {e \in {estart, eend} :
        e.total_energy <= estart.total_energy
        /\ e.total_energy <= eend.total_energy}

C15_Static ==
    (func = "epitaxial" /\ requested["outdir"] > 0)
        => /\ requested["outdir"] = 1
           /\ previous.directory.phase = "outdir"
           /\ pc \in {"epi_finish", "done"}
           /\ \E e \in LowerEnds :
                 /\ trial = e.structure
                 /\ e.directory.index \in {xstart, xend}
                 /\ trial.cell * One
                       = Structure(natoms).cell * (One + e.directory.index)

C15_Terminal ==
    func = "epitaxial"
        => /\ terminal = (IF pc = "done" THEN 1 ELSE 0)
           /\ pc \in {"epi_finish", "done"} => requested["outdir"] = 1
           /\ requested["outdir"] = 0
                 => pc \in {"start", "epi_start", "epi_end", "epi_walk",
                            "epi_bisect", "epi_static"}

C15_Step ==
    func = "epitaxial"
        => /\ requested["outdir"] = 1 => requested' = requested
           /\ requested'["outdir"] # requested["outdir"]
                 => pc = "epi_static"
           /\ pc = "epi_finish" => (pc' = "done" /\ terminal' = 1)

C16_RestartIsPrevious ==
    [][(requested' # requested /\ first_failure' = 0)
          => restart' = previous]_vars

C16_Restart ==
    requested' # requested
        => IF func = "epitaxial" /\ pc = "epi_static"
           THEN restart' \in LowerEnds
           ELSE restart' = previous

\* C16 amended: each step is requested with the Result of the step just
\* before it as its restart checkpoint (none for the first step), except
\* the static step of iter_epitaxial, whose checkpoint is the Result of the
\* lower-energy end of the final bracket, which need not be the Result of
\* the last midpoint.
C16_RestartIsPreviousOrLowerEnd == [][C16_Restart]_vars

\* C16 happens: the static step of iter_epitaxial restarted from the end of
\* the bracket that the last midpoint did not replace.
C16_Witness ==
    /\ func = "epitaxial" /\ pc = "epi_finish"
    /\ Abs(xend - xstart) < initstep
    /\ restart # allcalcs
    /\ restart \in LowerEnds

\* C18: the caller's structure is the same at every moment of a run of
\* iter_relax, iter_training or iter_epitaxial as at entry, and every trial
\* structure of iter_epitaxial is the structure at entry strained by the
\* trial's own x alone: cell and positions times (1 + x).
C18_StructureUntouched ==
    /\ structure = Structure(natoms)
    /\ (func = "epitaxial" /\ ~previous.none
        /\ previous.directory.phase = "relax_ions")
           => LET x == previous.directory.index
              IN  /\ trial.cell * One = Structure(natoms).cell * (One + x)
                  /\ \A i \in 1..natoms :
                        trial.pos[i] * One
                           = Structure(natoms).pos[i] * (One + x)

\* C18 happens: a midpoint was tried after the trials at 0, at the first
\* xend and further out.
C18_Witness ==
    /\ func = "epitaxial"
    /\ requested["relax_ions"] >= 4
    /\ previous.directory.phase = "relax_ions"
    /\ Abs(previous.directory.index) > initstep
    /\ Abs(xend - xstart) < initstep
    /\ trial # structure

\* the functional a call with the arguments c runs its steps with, were it
\* alone: the caller's functional with the call's own changes
OwnVasp(c) ==
    IF c.func = "epitaxial"
    THEN LET d == IF c.ediff = NotGiven THEN BaseVasp.ediff ELSE c.ediff
         IN  [relaxation |-> String("ionic"),
              encut |-> IF c.encut = NotGiven THEN EncutDefault ELSE c.encut,
              ediff |-> IF d < 100 * c.epiconv THEN c.epiconv ELSE d]
    ELSE [BaseVasp EXCEPT
            !.relaxation = IF c.relaxation.tuple THEN c.relaxation ELSE @]

\* C19: of two calls of controllers that share the caller's functional and
\* are interleaved step by step, each runs every one of its steps with the
\* functional it would have had alone (the caller's with its own changes of
\* relaxation, encut and ediff), each works on an object of its own once
\* entered, and the caller's functional is never changed.
C19_CallsDoNotInterfere ==
    /\ heap[Base] = BaseVasp
    /\ \A i \in Calls :
          /\ seen[i] \in {Unallocated, OwnVasp(call[i])}
          /\ cpc[i] # "start"
                => (ref[i] # Base /\ \A j \in Calls \ {i} : ref[j] # ref[i])

\* C19 happens: a call of iter_epitaxial that changed relaxation, encut and
\* ediff and a call of iter_relax with a relaxation tuple have both run
\* their steps.
C19_Witness ==
    /\ func = "shared"
    /\ cpc[1] = "over" /\ cpc[2] = "over"
    /\ call[1].func = "epitaxial" /\ call[1].epiconv > 1
    /\ call[2].func = "relax" /\ call[2].relaxation.tuple
    /\ seen[1] = OwnVasp(call[1]) /\ seen[1].ediff # BaseVasp.ediff
    /\ seen[2] = OwnVasp(call[2]) /\ seen[2] # BaseVasp

\* ------------------------------------------------------------ C21
\* iter_training has left its loop
AfterTraining == pc \in {"train_gate", "train_static", "train_finish", "done"}

C21_Cycle ==
    func = "training"
        => /\ pc = "train_ionic"
                 => /\ requested["relax_cellshape"] = requested["relax_ions"] + 1
                    /\ RelaxationResult(previous)
                    /\ previous.directory.phase = "relax_cellshape"
                    /\ isConv = (is_converged(criterion, previous) = "True")
           /\ pc = "train_cellshape"
                 => /\ requested["relax_cellshape"] = requested["relax_ions"]
                    /\ ~isConv
           /\ AfterTraining
                 => requested["relax_cellshape"] = requested["relax_ions"]

C21_Step ==
    func = "training"
        => /\ pc = "train_ionic"
                 => /\ requested' = [requested EXCEPT !["relax_ions"] = @ + 1]
                    /\ pc' = IF isConv THEN "train_gate" ELSE "train_cellshape"
           /\ (pc = "train_cellshape" /\ pc' = "train_gate")
                 => (requested' = requested /\ nb_steps >= maxcalls)
           /\ AfterTraining
                 => /\ requested'["relax_cellshape"] = requested["relax_cellshape"]
                    /\ requested'["relax_ions"] = requested["relax_ions"]
                    /\ pc' # "train_cellshape" /\ pc' # "train_ionic"

C22_TrainingWithinMaxCalls ==
    (func = "training" /\ maxcalls > 0)
        => requested["relax_cellshape"] + requested["relax_ions"] <= maxcalls

\* ------------------------------------------------------------ C23
\* C23: in iter_training with minrelsteps > 0 the check of a cycle answers
\* not converged while fewer than minrelsteps calls have been made, so the
\* loop is never left by convergence before minrelsteps calls were made.
C23_TrainingMinSteps ==
    (func = "training" /\ minrelsteps > 0)
        => /\ (pc = "train_ionic" /\ nb_steps < minrelsteps) => ~isConv
           /\ (pc = "train_gate" /\ isConv) => nb_steps >= minrelsteps

\* ------------------------------------------------------------ C24
\* a convergence failure was signalled
ConvergenceFailed == pc = "raised" /\ error \in ConvergenceFailures

\* C24: a convergence failure is signalled only when a relaxation loop used
\* up its calls (maxcalls > 0 of them) without a Result satisfying the
\* policy: never when the ionic phase of iter_relax ended on a Result that
\* satisfies the policy and a gwcalc step followed, and never when the loop
\* of iter_training was left because a cell-shape check was converged.
C24_FailureOnlyOnExhaustion ==
    ConvergenceFailed
        => /\ maxcalls > 0 /\ nb_steps >= maxcalls
           /\ (/\ func = "relax"
               /\ output.directory.phase = "relax_gwcalc"
               /\ RelaxationResult(restart)
               /\ restart.directory.phase = "relax_ions")
                 => is_converged(criterion, restart) # "True"
           /\ func = "training" => ~isConv

\* ------------------------------------------------------------ C25
\* C25: in iter_epitaxial a Result (of a trial step or of the static step)
\* with success == False is followed at once by an ExecutionFailure: no
\* further step is requested and no terminal Result is emitted.
C25_EpitaxialFailureIsFatal ==
    (func = "epitaxial" /\ first_failure # 0)
        => /\ Total = first_failure
           /\ terminal = 0
           /\ pc # "done"

\* ------------------------------------------------------------ C26
\* iter_epitaxial is bisecting or has bisected
Bisecting ==
    func = "epitaxial" /\ pc \in {"epi_bisect", "epi_static", "epi_finish", "done"}

\* C26 as stated: once a midpoint has been evaluated, the projected stress
\* at xstart has the sign of the search direction and the projected stress
\* at xend has not.  (Stated of the runs whose Results have all succeeded.)
C26_AlwaysStraddles ==
    (Bisecting /\ Abs(xend - xstart) < initstep /\ first_failure = 0)
        => (SameSide(estart) /\ ~SameSide(eend))

C26_Bracket ==
    Bisecting
        => /\ estart.directory.index = xstart
           /\ eend.directory.index = xend
           /\ ~SameSide(eend)
           /\ IF xstart = 0 /\ component(estart.stress) = 0
              THEN stress_direction = -1
              ELSE SameSide(estart)

C26_Midpoint ==
    (func = "epitaxial" /\ pc = "epi_bisect" /\ requested' # requested)
        => LET emid == previous'
           IN  /\ 2 * emid.directory.index = xstart + xend
               /\ 2 * Abs(xend' - xstart') = Abs(xend - xstart)
               /\ IF SameSide(emid)
                  THEN /\ xstart' = emid.directory.index /\ estart' = emid
                       /\ xend' = xend /\ eend' = eend
                  ELSE /\ xend' = emid.directory.index /\ eend' = emid
                       /\ xstart' = xstart /\ estart' = estart

\* C26 amended: throughout the bisection of iter_epitaxial each midpoint
\* replaces exactly one end of the bracket, xstart if its projected stress
\* has the sign of the search direction s and xend otherwise (a midpoint of
\* zero stress included), and the width of the bracket is exactly halved; so
\* the projected stress at xend never has the sign s, and the projected
\* stress at xstart has it, except while xstart is still the unstrained
\* structure with a projected stress of exactly zero (then s = -1).
C26_BracketKeepsStraddlingUnlessZero == []C26_Bracket /\ [][C26_Midpoint]_vars

\* C26 happens: two midpoints were evaluated, one became xstart and the
\* other xend.
C26_Witness ==
    /\ Bisecting /\ first_failure = 0
    /\ 4 * Abs(xend - xstart) = initstep
    /\ xstart % initstep # 0 /\ xend % initstep # 0
    /\ SameSide(estart) /\ ~SameSide(eend)

\* ------------------------------------------------------------ C27
\* cell-shape and ionic steps requested so far
Relaxations == requested["relax_cellshape"] + requested["relax_ions"]

\* iter_relax is past its two relaxation loops and the gate between them
LeftRelaxation ==
    pc \in {"relgw", "ions_gate", "static", "finish", "done"} \/ ConvergenceFailed

\* the first_trial call is the only relaxation call so far: its Result was
\* not handed to the policy and the relaxation loops are not over
OverrideNotLast ==
    Relaxations = 1 => (checked = {} /\ ~LeftRelaxation)

C27_Dropped ==
    (func = "relax" /\ first_trial /\ requested' # requested)
        => last_params' = IF Total = 0 /\ pc # "static"
                          THEN "kwargs+first_trial" ELSE "kwargs"

PlainRelax ==
    /\ func = "relax" /\ ~first_trial /\ minrelsteps < 0
    /\ first_failure' = 0

\* the Result the loop of the phase ended on satisfies the policy
Satisfying(r, phase) ==
    /\ RelaxationResult(r)
    /\ r.directory.phase = phase
    /\ is_converged(criterion, r) = "True"

C28_Step ==
    PlainRelax
        => /\ requested'["relax_cellshape"] # requested["relax_cellshape"]
                 => ~Satisfying(output, "relax_cellshape")
           /\ requested'["relax_ions"] # requested["relax_ions"]
                 => ~Satisfying(output, "relax_ions")
           /\ (pc = "cellshape" /\ pc' # "cellshape"
                                /\ "cellshape" \in relaxation)
                 => \/ Satisfying(output', "relax_cellshape")
                    \/ maxcalls > 0 /\ nb_steps' >= maxcalls
           /\ (pc = "ionic" /\ pc' # "ionic" /\ "ionic" \in relaxation)
                 => \/ Satisfying(output', "relax_ions")
                    \/ maxcalls > 0 /\ nb_steps' >= maxcalls + 1

\* C28: with an executor that always succeeds, no first_trial and
\* minrelsteps ignored, each loop of iter_relax stops exactly at the first
\* step whose Result satisfies the policy: no step of the phase is requested
\* after a satisfying Result, and the loop is not left before one unless its
\* call ceiling is reached.
C28_StopsAtFirstSatisfying == [][C28_Step]_vars

\* the same, of the runs whose relaxation is read from vasp.relaxation
\* and not handed over as a keyword
C28_StepFromVasp == keyword \/ C28_Step
C28_FromVasp == [][C28_StepFromVasp]_vars

\* ------------------------------------------------------------ C29
\* steps requested so far under relax_cellshape, relax_ions and relax_gwcalc
Counted == Relaxations + requested["relax_gwcalc"]

C29_Counter ==
    func \in {"relax", "training"} => nb_steps = Counted

C29_Step ==
    func \in {"relax", "training"}
        => IF requested' # requested /\ pc \notin {"static", "train_static"}
           THEN /\ nb_steps' = nb_steps + 1
                /\ previous'.directory.index = nb_steps
                /\ requested' =
                      [requested EXCEPT ![previous'.directory.phase] = @ + 1]
           ELSE nb_steps' = nb_steps

\* C29: in iter_relax and iter_training the counter nb_steps never goes
\* down and goes up by exactly one with each realized step; a step is
\* requested in the directory <phase>/<nb_steps>, so the indices are
\* 0, 1, 2, ... in request order across the phases, each equal to the number
\* of steps requested before it, and no <phase>/<index> is requested twice.
C29_IndicesCountUp == []C29_Counter /\ [][C29_Step]_vars

\* C29 happens: the three phases of iter_relax took the indices 0, 1, 2.
C29_Witness ==
    /\ func = "relax"
    /\ requested["relax_cellshape"] = 1
    /\ requested["relax_ions"] = 1
    /\ requested["relax_gwcalc"] = 1
    /\ restart.directory = [phase |-> "relax_ions", index |-> 1]
    /\ previous.directory = [phase |-> "relax_gwcalc", index |-> 2]
    /\ nb_steps = 3

\* ------------------------------------------------------------ C30
C30_Step ==
    (/\ func = "relax" /\ maxcalls > 0 /\ "ionic" \in relaxation
     /\ pc = "ionic" /\ pc' # "ionic")
        => requested'["relax_ions"] >= 1

\* C30: for maxcalls > 0, when ionic relaxation is asked for and iter_relax
\* is past the gate that follows the cell-shape loop, the ionic loop is not
\* left before at least one ionic step was requested, even when the
\* cell-shape loop used all maxcalls calls.
C30_AtLeastOneIonicStep == [][C30_Step]_vars

\* the same, of the runs whose relaxation is read from vasp.relaxation
\* and not handed over as a keyword
C30_StepFromVasp == keyword \/ C30_Step
C30_FromVasp == [][C30_StepFromVasp]_vars

\* ------------------------------------------------------------ C31
\* the invocation is over: a terminal Result or an exception
Over(at) == at \in {"done", "raised"}

\* the second invocation requests the addresses of the first, in its order
C31_SameOrder ==
    run = 2
        => \A i \in DOMAIN trace \cap DOMAIN first.trace :
              trace[i].directory = first.trace[i].directory

\* both invocations being over, they made the same requests and ended alike
C31_SameOutcome ==
    (run = 2 /\ Over(first.pc) /\ Over(pc))
        => /\ trace = first.trace
           /\ pc = first.pc
           /\ error = first.error
           /\ terminal = first.terminal

\* C31: two invocations of iter_relax with the same arguments and the same
\* outdir, whose step directories give the same Result at every address,
\* request the same addresses in the same order and end in the same outcome
\* (the terminal Result, or the same error); invoked again after an
\* interruption, iter_relax goes through the addresses already done in the
\* same order before it requests a new one.
C31_Deterministic == C31_SameOrder /\ C31_SameOutcome

\* the same, of the runs that do not get to the clean-up of the step
\* directories (keepsteps, or a static run that failed)
C31_DeterministicKeepingSteps == keepsteps => C31_Deterministic

====
